---- MODULE Spec2Model ----
(***************************************************************************)
(* Model of the two programs of the repository:                            *)
(*   - sandbox/test-dpdk-init.c : main() brings one DPDK port up, waits    *)
(*     for SIGINT and shuts the port down;                                 *)
(*   - include/saru/zmq_pub.h   : a process-wide ZeroMQ PUB channel        *)
(*     (zmq_pub_init, zmq_pub_send_json, zmq_pub_close).                   *)
(* The DPDK and ZeroMQ libraries are the environment: every call into them *)
(* returns an outcome chosen nondeterministically.                         *)
(***************************************************************************)
EXTENDS Integers, Sequences, FiniteSets, TLC

VARIABLES
  \* ---- sandbox/test-dpdk-init.c ----
  pc,            \* statement of main() that executes next
  keep_running,  \* static volatile int keep_running
  sigint_disp,   \* disposition of SIGINT: "default" or "handle_sigint"
  sig_seen,      \* a SIGINT has been delivered to the process
  eal,           \* EAL environment: "uninit", "init", "released"
  mp,            \* struct rte_mempool *mp: "NULL" or "MBUF_POOL"
  dev,           \* the ethernet device behind port_id 0
  ret,           \* int ret
  fec_ret,       \* int fec_ret
  calls,         \* the calls into DPDK made so far, in order
  out,           \* what the program has printed (stdout, stderr, panic text)
  \* ---- include/saru/zmq_pub.h ----
  g_zmq_ctx,     \* static void* g_zmq_ctx  (0 is nullptr)
  g_zmq_pub,     \* static void* g_zmq_pub  (0 is nullptr)
  zctxs,         \* contexts created and not terminated
  zsocks,        \* sockets created and not closed
  sock,          \* options and outbound pipe of the socket g_zmq_pub points to
  wire,          \* the multipart messages the socket has accepted for delivery
  zproc,         \* the process using the channel: "running" or "aborted"
  zhist,         \* counters of the calls made on the channel
  last_pub       \* what the last zmq_pub_send_json call did

portVars == <<pc, keep_running, sigint_disp, sig_seen, eal, mp, dev, ret,
              fec_ret, calls, out>>
pubVars  == <<g_zmq_ctx, g_zmq_pub, zctxs, zsocks, sock, wire, zproc, zhist,
              last_pub>>
vars     == <<portVars, pubVars>>

(***************************************************************************)
(* sandbox/test-dpdk-init.c                                                *)
(***************************************************************************)

\* const uint16_t desired_mtu = 9200;
desired_mtu == 9200

\* enum rte_eth_fec_mode, as the source names its members.
RTE_ETH_FEC_NOFEC == 0
RTE_ETH_FEC_AUTO  == 1
RTE_ETH_FEC_BASER == 2
RTE_ETH_FEC_RS    == 3

FecModes == {RTE_ETH_FEC_NOFEC, RTE_ETH_FEC_AUTO, RTE_ETH_FEC_BASER, RTE_ETH_FEC_RS}

\* Negative codes a device call may return (-EINVAL, -ENOTSUP), and success.
ErrCodes == {-22, -95}
RetCodes == {0} \cup ErrCodes

RECURSIVE Pow2(_)
Pow2(n) == IF n = 0 THEN 1 ELSE 2 * Pow2(n - 1)

\* The C operator & on non-negative ints.
RECURSIVE BitAnd(_, _)
BitAnd(a, b) ==
  IF a = 0 \/ b = 0 THEN 0
  ELSE (IF a % 2 = 1 /\ b % 2 = 1 THEN 1 ELSE 0) + 2 * BitAnd(a \div 2, b \div 2)

\* rte_eth_fec_get stores "a bitmask with the current FEC mode": bit number
\* <mode> is set.
FecCapa(mode) == Pow2(mode)

\* main() with the FEC set moved behind the port start.
Program_fec_after_start ==
  << "rte_eal_init", "rte_eth_dev_count_avail", "stop_before_configure",
     "rte_eth_dev_info_get", "rte_pktmbuf_pool_create",
     "rte_eth_dev_configure", "rte_eth_rx_queue_setup",
     "rte_eth_tx_queue_setup", "rte_eth_dev_set_mtu", "rte_eth_dev_start",
     "rte_eth_fec_set", "print_fec", "rte_eth_link_get_nowait", "signal",
     "run_loop", "rte_eth_dev_stop", "rte_eth_dev_close", "rte_eal_cleanup",
     "done" >>

\* main() with the receive queue set up before the device is configured.
Program_queue_before_configure ==
  << "rte_eal_init", "rte_eth_dev_count_avail", "stop_before_configure",
     "rte_eth_dev_info_get", "rte_pktmbuf_pool_create",
     "rte_eth_rx_queue_setup", "rte_eth_dev_configure",
     "rte_eth_tx_queue_setup", "rte_eth_dev_set_mtu", "rte_eth_fec_set",
     "print_fec", "rte_eth_dev_start", "rte_eth_link_get_nowait", "signal",
     "run_loop", "rte_eth_dev_stop", "rte_eth_dev_close", "rte_eal_cleanup",
     "done" >>

\* The statements of main(), in program order.
Program ==
  << "rte_eal_init", "rte_eth_dev_count_avail", "stop_before_configure",
     "rte_eth_dev_info_get", "rte_pktmbuf_pool_create",
     "rte_eth_dev_configure", "rte_eth_rx_queue_setup",
     "rte_eth_tx_queue_setup", "rte_eth_dev_set_mtu", "rte_eth_fec_set",
     "print_fec", "rte_eth_dev_start", "rte_eth_link_get_nowait", "signal",
     "run_loop", "rte_eth_dev_stop", "rte_eth_dev_close", "rte_eal_cleanup",
     "done" >>

Line(p) == CHOOSE i \in 1..Len(Program) : Program[i] = p

\* The statement that follows statement p.
After(p) == Program[Line(p) + 1]

\* The process is executing main().
Alive == pc \notin {"done", "aborted", "killed"}

\* Statements of the bring-up (pool creation .. port start).
BringUpSteps ==
  { "rte_pktmbuf_pool_create", "rte_eth_dev_configure",
    "rte_eth_rx_queue_setup", "rte_eth_tx_queue_setup", "rte_eth_dev_set_mtu",
    "rte_eth_fec_set", "print_fec", "rte_eth_dev_start" }

\* Statements before the bring-up.
Prologue ==
  { "rte_eal_init", "rte_eth_dev_count_avail", "stop_before_configure",
    "rte_eth_dev_info_get" }

\* Statements after rte_eth_dev_stop at the end of main().
AfterStop == {"rte_eth_dev_close", "rte_eal_cleanup", "done"}

\* The port runtime state the program is in: main() keeps no state variable,
\* the state is what the device calls made so far have achieved.
PortState ==
  CASE pc = "aborted"                 -> "Failed"
    [] pc \in AfterStop               -> "Stopped"
    [] dev.started                    -> "Started"
    [] dev.rxq /\ dev.txq             -> "QueuesReady"
    [] dev.configured                 -> "Configured"
    [] OTHER                          -> "Unconfigured"

\* One call into DPDK, as recorded in `calls`.
Call(op, r) == [op |-> op, ret |-> r, at |-> PortState, fec |-> dev.fec]

\* One line of output: kind is "panic", "warn", "fec", "fec_unsupported",
\* "link" or "info"; code is the number printed with it (when hasCode), text
\* the words printed with it.
Diag(kind, step, hasCode, code, text) ==
  [kind |-> kind, step |-> step, hasCode |-> hasCode, code |-> code,
   text |-> text]

\* rte_panic(fmt, code): print and abort().
rte_panic(step, hasCode, code) ==
  /\ pc' = "aborted"
  /\ out' = Append(out, Diag("panic", step, hasCode, code, << >>))

(***************************************************************************)
(* include/saru/zmq_pub.h : state of the channel                           *)
(***************************************************************************)

\* int hwm = 2000;  int linger = 0;  int timeo = 0;
hwm    == 2000
linger == 0
timeo  == 0

\* A socket as zmq_socket returns it: libzmq's default options (ZMQ_SNDHWM
\* 1000, ZMQ_LINGER and ZMQ_SNDTIMEO -1 = infinite), not bound, nothing queued.
\*   outq     complete messages queued in the outbound pipe
\*   inprog   frames of the multipart message being assembled (ZMQ_SNDMORE)
\*   dropping the multipart message being assembled is being dropped
NewSocket ==
  [sndhwm |-> 1000, linger |-> -1, sndtimeo |-> -1, bound |-> "",
   outq |-> 0, inprog |-> << >>, dropping |-> FALSE]

\* `sock` while g_zmq_pub is nullptr.
NoSocket == NewSocket

\* `last_pub` before any zmq_pub_send_json call.
NoPublish == [topic_rc |-> 0, payload_tried |-> FALSE, payload_rc |-> 0]

\* `zhist.last_close` before any zmq_pub_close call; afterwards: whether the
\* last call called zmq_close and zmq_ctx_term.
NoClose == [called |-> FALSE, sock |-> FALSE, ctx |-> FALSE]

Init ==
  /\ pc = "rte_eal_init"
  /\ keep_running = 1
  /\ sigint_disp = "default"
  /\ sig_seen = FALSE
  /\ eal = "uninit"
  /\ mp = "NULL"
  /\ dev \in [configured : {FALSE}, rxq : {FALSE}, txq : {FALSE},
              started : {FALSE}, closed : {FALSE}, mtu : {1500},
              fec : FecModes]
  /\ ret = 0
  /\ fec_ret = 0
  /\ calls = << >>
  /\ out = << >>
  /\ g_zmq_ctx = 0
  /\ g_zmq_pub = 0
  /\ zctxs = {}
  /\ zsocks = {}
  /\ sock = NoSocket
  /\ wire = << >>
  /\ zproc = "running"
  /\ zhist = [pubs |-> 0, inits |-> 0, handles |-> 0, closes |-> 0, terms |-> 0,
              last_close |-> NoClose, endpoint |-> ""]
  /\ last_pub = NoPublish


\* The words print_fec prints for the bitmask fec (lines 17-20).
PrintedFec(fec) ==
     (IF BitAnd(fec, RTE_ETH_FEC_AUTO)  # 0 THEN <<"AUTO">>   ELSE << >>)
  \o (IF BitAnd(fec, RTE_ETH_FEC_RS)    # 0 THEN <<"RS">>     ELSE << >>)
  \o (IF BitAnd(fec, RTE_ETH_FEC_BASER) # 0 THEN <<"BASE-R">> ELSE << >>)
  \o (IF BitAnd(fec, RTE_ETH_FEC_NOFEC) # 0 THEN <<"NOFEC">>  ELSE << >>)

\* What rte_eth_link_get_nowait can store in `link` when it succeeds.
DevLinks ==
  { [link_status |-> 1, link_speed |-> 10000, link_duplex |-> 1],
    [link_status |-> 0, link_speed |-> 0,     link_duplex |-> 0] }

\* What `struct rte_eth_link link` can hold when nothing was stored in it
\* (it is not initialised).
AnyLinks == [link_status : {0, 1}, link_speed : {0, 10000}, link_duplex : {0, 1}]

\* int ret = rte_eal_init(argc, argv); if (ret < 0) rte_panic(...)
rte_eal_init ==
  /\ pc = "rte_eal_init"
  /\ \E r \in {-1, 0} :
       /\ ret' = r
       /\ calls' = Append(calls, Call("rte_eal_init", r))
       /\ IF r < 0
            THEN /\ rte_panic("EAL init", FALSE, 0)
                 /\ UNCHANGED eal
            ELSE /\ eal' = "init"
                 /\ pc' = After(pc)
                 /\ UNCHANGED out
  /\ UNCHANGED <<keep_running, sigint_disp, sig_seen, mp, dev, fec_ret>>
  /\ UNCHANGED pubVars

\* if (rte_eth_dev_count_avail() == 0) rte_panic(...)
rte_eth_dev_count_avail ==
  /\ pc = "rte_eth_dev_count_avail"
  /\ \E n \in {0, 1} :
       /\ calls' = Append(calls, Call("rte_eth_dev_count_avail", n))
       /\ IF n = 0
            THEN rte_panic("No available DPDK ports", FALSE, 0)
            ELSE pc' = After(pc) /\ UNCHANGED out
  /\ UNCHANGED <<keep_running, sigint_disp, sig_seen, eal, mp, dev, ret, fec_ret>>
  /\ UNCHANGED pubVars

\* if (rte_eth_dev_is_valid_port(port_id)) { rte_eth_dev_stop(port_id); }
stop_before_configure ==
  /\ pc = "stop_before_configure"
  /\ \E valid \in BOOLEAN :
       IF valid
         THEN /\ calls' = Append(calls, Call("rte_eth_dev_stop", 0))
              /\ dev' = [dev EXCEPT !.started = FALSE]
         ELSE UNCHANGED <<calls, dev>>
  /\ pc' = After(pc)
  /\ UNCHANGED <<keep_running, sigint_disp, sig_seen, eal, mp, ret, fec_ret, out>>
  /\ UNCHANGED pubVars

\* rte_eth_dev_info_get(port_id, &dev_info);
rte_eth_dev_info_get ==
  /\ pc = "rte_eth_dev_info_get"
  /\ calls' = Append(calls, Call("rte_eth_dev_info_get", 0))
  /\ pc' = After(pc)
  /\ UNCHANGED <<keep_running, sigint_disp, sig_seen, eal, mp, dev, ret, fec_ret, out>>
  /\ UNCHANGED pubVars

\* mp = rte_pktmbuf_pool_create(...); if (mp == NULL) rte_panic(...)
rte_pktmbuf_pool_create ==
  /\ pc = "rte_pktmbuf_pool_create"
  /\ \E m \in {"NULL", "MBUF_POOL"} :
       /\ mp' = m
       /\ calls' = Append(calls, Call("rte_pktmbuf_pool_create",
                                      IF m = "NULL" THEN -1 ELSE 0))
       /\ IF m = "NULL"
            THEN rte_panic("mbuf pool create", FALSE, 0)
            ELSE pc' = After(pc) /\ UNCHANGED out
  /\ UNCHANGED <<keep_running, sigint_disp, sig_seen, eal, dev, ret, fec_ret>>
  /\ UNCHANGED pubVars

\* ret = rte_eth_dev_configure(...); if (ret < 0) rte_panic(..., ret)
rte_eth_dev_configure ==
  /\ pc = "rte_eth_dev_configure"
  /\ \E r \in RetCodes :
       /\ ret' = r
       /\ calls' = Append(calls, Call("rte_eth_dev_configure", r))
       /\ IF r < 0
            THEN /\ rte_panic("dev configure", TRUE, r)
                 /\ UNCHANGED dev
            ELSE /\ dev' = [dev EXCEPT !.configured = TRUE, !.mtu = desired_mtu]
                 /\ pc' = After(pc)
                 /\ UNCHANGED out
  /\ UNCHANGED <<keep_running, sigint_disp, sig_seen, eal, mp, fec_ret>>
  /\ UNCHANGED pubVars

\* ret = rte_eth_rx_queue_setup(..., mp); if (ret < 0) rte_panic(..., ret)
rte_eth_rx_queue_setup ==
  /\ pc = "rte_eth_rx_queue_setup"
  /\ \E r \in RetCodes :
       /\ ret' = r
       /\ calls' = Append(calls, Call("rte_eth_rx_queue_setup", r))
       /\ IF r < 0
            THEN /\ rte_panic("rx queue setup", TRUE, r)
                 /\ UNCHANGED dev
            ELSE /\ dev' = [dev EXCEPT !.rxq = TRUE]
                 /\ pc' = After(pc)
                 /\ UNCHANGED out
  /\ UNCHANGED <<keep_running, sigint_disp, sig_seen, eal, mp, fec_ret>>
  /\ UNCHANGED pubVars

\* ret = rte_eth_tx_queue_setup(...); if (ret < 0) rte_panic(..., ret)
rte_eth_tx_queue_setup ==
  /\ pc = "rte_eth_tx_queue_setup"
  /\ \E r \in RetCodes :
       /\ ret' = r
       /\ calls' = Append(calls, Call("rte_eth_tx_queue_setup", r))
       /\ IF r < 0
            THEN /\ rte_panic("tx queue setup", TRUE, r)
                 /\ UNCHANGED dev
            ELSE /\ dev' = [dev EXCEPT !.txq = TRUE]
                 /\ pc' = After(pc)
                 /\ UNCHANGED out
  /\ UNCHANGED <<keep_running, sigint_disp, sig_seen, eal, mp, fec_ret>>
  /\ UNCHANGED pubVars

\* rte_eth_dev_set_mtu with its failure treated like that of a fatal step.
rte_eth_dev_set_mtu_fatal ==
  /\ pc = "rte_eth_dev_set_mtu"
  /\ \E r \in RetCodes :
       /\ ret' = r
       /\ calls' = Append(calls, Call("rte_eth_dev_set_mtu", r))
       /\ IF r < 0
            THEN /\ rte_panic("set MTU", TRUE, r)
                 /\ UNCHANGED dev
            ELSE /\ dev' = [dev EXCEPT !.mtu = desired_mtu]
                 /\ pc' = After(pc)
                 /\ UNCHANGED out
  /\ UNCHANGED <<keep_running, sigint_disp, sig_seen, eal, mp, fec_ret>>
  /\ UNCHANGED pubVars

\* ret = rte_eth_dev_set_mtu(port_id, desired_mtu); if (ret < 0) fprintf(WARN)
rte_eth_dev_set_mtu ==
  /\ pc = "rte_eth_dev_set_mtu"
  /\ \E r \in RetCodes :
       /\ ret' = r
       /\ calls' = Append(calls, Call("rte_eth_dev_set_mtu", r))
       /\ IF r < 0
            THEN /\ out' = Append(out, Diag("warn", "set MTU", TRUE, r, << >>))
                 /\ UNCHANGED dev
            ELSE /\ dev' = [dev EXCEPT !.mtu = desired_mtu]
                 /\ UNCHANGED out
  /\ pc' = After(pc)
  /\ UNCHANGED <<keep_running, sigint_disp, sig_seen, eal, mp, fec_ret>>
  /\ UNCHANGED pubVars

\* int fec_ret = rte_eth_fec_set(port_id, RTE_ETH_FEC_NOFEC);
\* if (fec_ret < 0) fprintf(WARN).  A device that accepts the call switches
\* to the mode the argument names; one that rejects it keeps its mode.
rte_eth_fec_set ==
  /\ pc = "rte_eth_fec_set"
  /\ \E r \in RetCodes :
       /\ fec_ret' = r
       /\ calls' = Append(calls, Call("rte_eth_fec_set", r))
       /\ IF r < 0
            THEN /\ out' = Append(out, Diag("warn", "FEC set NOFEC", TRUE, r, << >>))
                 /\ UNCHANGED dev
            ELSE /\ dev' = [dev EXCEPT !.fec = RTE_ETH_FEC_NOFEC]
                 /\ UNCHANGED out
  /\ pc' = After(pc)
  /\ UNCHANGED <<keep_running, sigint_disp, sig_seen, eal, mp, ret>>
  /\ UNCHANGED pubVars

\* print_fec(port_id, "after set");
print_fec ==
  /\ pc = "print_fec"
  /\ \E r \in RetCodes :
       /\ calls' = Append(calls, Call("rte_eth_fec_get", r))
       /\ out' = Append(out,
            IF r = 0
              THEN Diag("fec", "after set", FALSE, 0, PrintedFec(FecCapa(dev.fec)))
              ELSE Diag("fec_unsupported", "after set", TRUE, r, << >>))
  /\ pc' = After(pc)
  /\ UNCHANGED <<keep_running, sigint_disp, sig_seen, eal, mp, dev, ret, fec_ret>>
  /\ UNCHANGED pubVars

\* rte_eth_dev_start without the check of its return value.
rte_eth_dev_start_unchecked ==
  /\ pc = "rte_eth_dev_start"
  /\ \E r \in RetCodes :
       /\ ret' = r
       /\ calls' = Append(calls, Call("rte_eth_dev_start", r))
       /\ dev' = IF r < 0 THEN dev ELSE [dev EXCEPT !.started = TRUE]
  /\ pc' = After(pc)
  /\ UNCHANGED <<keep_running, sigint_disp, sig_seen, eal, mp, fec_ret, out>>
  /\ UNCHANGED pubVars

\* ret = rte_eth_dev_start(port_id); if (ret < 0) rte_panic(..., ret)
rte_eth_dev_start ==
  /\ pc = "rte_eth_dev_start"
  /\ \E r \in RetCodes :
       /\ ret' = r
       /\ calls' = Append(calls, Call("rte_eth_dev_start", r))
       /\ IF r < 0
            THEN /\ rte_panic("port start", TRUE, r)
                 /\ UNCHANGED dev
            ELSE /\ dev' = [dev EXCEPT !.started = TRUE]
                 /\ pc' = After(pc)
                 /\ UNCHANGED out
  /\ UNCHANGED <<keep_running, sigint_disp, sig_seen, eal, mp, fec_ret>>
  /\ UNCHANGED pubVars

\* rte_eth_link_get_nowait(port_id, &link); printf("Port %u: link ...")
rte_eth_link_get_nowait ==
  /\ pc = "rte_eth_link_get_nowait"
  /\ \E r \in RetCodes :
       \E link \in (IF r = 0 THEN DevLinks ELSE AnyLinks) :
         /\ calls' = Append(calls, Call("rte_eth_link_get_nowait", r))
         /\ out' = Append(out,
              Diag("link", "Port 0", TRUE, link.link_speed,
                   << IF link.link_status # 0 THEN "UP" ELSE "DOWN",
                      IF link.link_duplex = 1 THEN "full" ELSE "half" >>))
  /\ pc' = After(pc)
  /\ UNCHANGED <<keep_running, sigint_disp, sig_seen, eal, mp, dev, ret, fec_ret>>
  /\ UNCHANGED pubVars

\* signal(SIGINT, handle_sigint); printf("Running...")
signal ==
  /\ pc = "signal"
  /\ sigint_disp' = "handle_sigint"
  /\ out' = Append(out, Diag("info", "Running", FALSE, 0, << >>))
  /\ pc' = After(pc)
  /\ UNCHANGED <<keep_running, sig_seen, eal, mp, dev, ret, fec_ret, calls>>
  /\ UNCHANGED pubVars

\* A run loop that ends after one sleep, whatever the flag.
run_loop_timeout ==
  /\ pc = "run_loop"
  /\ pc' = After(pc)
  /\ UNCHANGED <<keep_running, sigint_disp, sig_seen, eal, mp, dev, ret,
                 fec_ret, calls, out>>
  /\ UNCHANGED pubVars

\* while (keep_running) sleep(1);
run_loop ==
  /\ pc = "run_loop"
  /\ pc' = IF keep_running # 0 THEN pc ELSE After(pc)
  /\ UNCHANGED <<keep_running, sigint_disp, sig_seen, eal, mp, dev, ret,
                 fec_ret, calls, out>>
  /\ UNCHANGED pubVars

\* rte_eth_dev_stop(port_id);
rte_eth_dev_stop ==
  /\ pc = "rte_eth_dev_stop"
  /\ calls' = Append(calls, Call("rte_eth_dev_stop", 0))
  /\ dev' = [dev EXCEPT !.started = FALSE]
  /\ pc' = After(pc)
  /\ UNCHANGED <<keep_running, sigint_disp, sig_seen, eal, mp, ret, fec_ret, out>>
  /\ UNCHANGED pubVars

\* rte_eth_dev_close(port_id);
rte_eth_dev_close ==
  /\ pc = "rte_eth_dev_close"
  /\ calls' = Append(calls, Call("rte_eth_dev_close", 0))
  /\ dev' = [dev EXCEPT !.configured = FALSE, !.rxq = FALSE, !.txq = FALSE,
                        !.started = FALSE, !.closed = TRUE]
  /\ pc' = After(pc)
  /\ UNCHANGED <<keep_running, sigint_disp, sig_seen, eal, mp, ret, fec_ret, out>>
  /\ UNCHANGED pubVars

\* rte_eal_cleanup(); return 0;   (the EAL owns the mempool memory)
rte_eal_cleanup ==
  /\ pc = "rte_eal_cleanup"
  /\ calls' = Append(calls, Call("rte_eal_cleanup", 0))
  /\ eal' = "released"
  /\ mp' = "NULL"
  /\ pc' = After(pc)
  /\ UNCHANGED <<keep_running, sigint_disp, sig_seen, dev, ret, fec_ret, out>>
  /\ UNCHANGED pubVars

\* A handler that also tears the port down itself.
handle_sigint_teardown ==
  /\ Alive
  /\ sigint_disp = "handle_sigint"
  /\ keep_running' = 0
  /\ sig_seen' = TRUE
  /\ calls' = Append(Append(calls, Call("rte_eth_dev_stop", 0)),
                     Call("rte_eth_dev_close", 0))
  /\ dev' = [dev EXCEPT !.configured = FALSE, !.rxq = FALSE, !.txq = FALSE,
                        !.started = FALSE, !.closed = TRUE]
  /\ UNCHANGED <<pc, sigint_disp, eal, mp, ret, fec_ret, out>>
  /\ UNCHANGED pubVars

\* static void handle_sigint(int sig) { (void)sig; keep_running = 0; }
\* runs when SIGINT arrives after signal(SIGINT, handle_sigint).
handle_sigint ==
  /\ Alive
  /\ sigint_disp = "handle_sigint"
  /\ keep_running' = 0
  /\ sig_seen' = TRUE
  /\ UNCHANGED <<pc, sigint_disp, eal, mp, dev, ret, fec_ret, calls, out>>
  /\ UNCHANGED pubVars

\* SIGINT arrives before signal(SIGINT, handle_sigint) has run: the default
\* disposition ends the process at once.
sigint_default ==
  /\ Alive
  /\ sigint_disp = "default"
  /\ pc' = "killed"
  /\ sig_seen' = TRUE
  /\ UNCHANGED <<keep_running, sigint_disp, eal, mp, dev, ret, fec_ret, calls, out>>
  /\ UNCHANGED pubVars

Next ==
  \/ rte_eal_init
  \/ rte_eth_dev_count_avail
  \/ stop_before_configure
  \/ rte_eth_dev_info_get
  \/ rte_pktmbuf_pool_create
  \/ rte_eth_dev_configure
  \/ rte_eth_rx_queue_setup
  \/ rte_eth_tx_queue_setup
  \/ rte_eth_dev_set_mtu
  \/ rte_eth_fec_set
  \/ print_fec
  \/ rte_eth_dev_start
  \/ rte_eth_link_get_nowait
  \/ signal
  \/ run_loop
  \/ rte_eth_dev_stop
  \/ rte_eth_dev_close
  \/ rte_eal_cleanup
  \/ handle_sigint
  \/ sigint_default

Spec == Init /\ [][Next]_vars


(***************************************************************************)
(* include/saru/zmq_pub.h : operations.  A caller (not in the repository)  *)
(* makes the calls one at a time, in any order.                            *)
(***************************************************************************)

\* Numbers of zmq_pub_init and zmq_pub_send_json calls explored.
MaxInit == 2
MaxPub  == 3

Endpoints == {"tcp://*:5556", "ipc:///tmp/srs_scs_pub.ipc"}
Topics    == {"fec", "link"}
Jsons     == {"{...}"}

\* One frame handed to zmq_send by call number n of zmq_pub_send_json.
Frame(n, part, data) == [call |-> n, part |-> part, data |-> data]

\* The outbound pipe of socket s is at its high-water mark.
Full(s) == s.outq >= s.sndhwm

\* zmq_send(socket, frame, flags) on a socket in state s with w accepted so
\* far: the set of possible outcomes.  rc is the return value (-1: failure,
\* nothing queued).  A frame sent with ZMQ_SNDMORE is held until the frame
\* without it completes the message.  At the high-water mark a new message is
\* dropped whole (a PUB socket's mute state) or the call fails with EAGAIN;
\* without ZMQ_DONTWAIT and with a send timeout other than zero the call may
\* instead wait for room.
zmq_send(s, w, frame, flags) ==
  LET more    == "ZMQ_SNDMORE" \in flags
      nowait  == "ZMQ_DONTWAIT" \in flags \/ s.sndtimeo = 0
      failed  == [rc |-> -1, sock |-> s, wire |-> w, blocked |-> FALSE]
      dropped == [rc |-> 1, sock |-> [s EXCEPT !.dropping = more],
                  wire |-> w, blocked |-> FALSE]
      waits   == [rc |-> 0, sock |-> s, wire |-> w, blocked |-> TRUE]
      grown   == Append(s.inprog, frame)
      queued  == IF more
                   THEN [rc |-> 1, sock |-> [s EXCEPT !.inprog = grown],
                         wire |-> w, blocked |-> FALSE]
                   ELSE [rc |-> 1,
                         sock |-> [s EXCEPT !.inprog = << >>, !.outq = @ + 1],
                         wire |-> Append(w, grown), blocked |-> FALSE]
  IN  IF s.dropping THEN {failed, dropped}
      ELSE IF s.inprog = << >> /\ Full(s)
             THEN {failed, dropped} \cup (IF nowait THEN {} ELSE {waits})
      ELSE {failed, queued}

\* The topic frame sent without ZMQ_DONTWAIT.
TopicFlags_waiting == {"ZMQ_SNDMORE"}

\* Flags of the two zmq_send calls of zmq_pub_send_json.
TopicFlags   == {"ZMQ_SNDMORE", "ZMQ_DONTWAIT"}
PayloadFlags == {"ZMQ_DONTWAIT"}

\* The result of the topic send is not looked at.
TopicSendFailed_ignored(rc) == FALSE

\* if (zmq_send(... topic ...) < 0) return;
TopicSendFailed(rc) == rc < 0

\* The result of zmq_bind is not looked at.
BindFailed_ignored(rc) == FALSE

\* if (zmq_bind(g_zmq_pub, endpoint) != 0) { perror; abort }
BindFailed(rc) == rc # 0

\* inline void zmq_pub_init(const char* endpoint)
zmq_pub_init ==
  /\ zproc = "running"
  /\ zhist.inits < MaxInit
  /\ LET ctx == zhist.handles + 1
         pub == zhist.handles + 2
     IN  \E ctxOk \in BOOLEAN :
         IF ~ctxOk
           THEN \* zmq_ctx_new() returned NULL: perror, abort
                /\ g_zmq_ctx' = 0
                /\ zproc' = "aborted"
                /\ zhist' = [zhist EXCEPT !.inits = @ + 1]
                /\ UNCHANGED <<g_zmq_pub, zctxs, zsocks, sock>>
           ELSE \E sockOk \in BOOLEAN :
                IF ~sockOk
                  THEN \* zmq_socket() returned NULL: perror, abort
                       /\ g_zmq_ctx' = ctx
                       /\ g_zmq_pub' = 0
                       /\ zctxs' = zctxs \cup {ctx}
                       /\ zproc' = "aborted"
                       /\ zhist' = [zhist EXCEPT !.inits = @ + 1, !.handles = @ + 1]
                       /\ sock' = NoSocket
                       /\ UNCHANGED zsocks
                  ELSE \E endpoint \in Endpoints :
                       \E hwmOk, lingerOk, timeoOk \in BOOLEAN :
                       \E bind_rc \in {0, -1} :
                         \* the results of the three zmq_setsockopt calls are
                         \* not looked at; zmq_bind failing: perror, abort
                         /\ g_zmq_ctx' = ctx
                         /\ g_zmq_pub' = pub
                         /\ zctxs' = zctxs \cup {ctx}
                         /\ zsocks' = zsocks \cup {pub}
                         /\ sock' = [NewSocket EXCEPT
                              !.sndhwm   = IF hwmOk    THEN hwm    ELSE @,
                              !.linger   = IF lingerOk THEN linger ELSE @,
                              !.sndtimeo = IF timeoOk  THEN timeo  ELSE @,
                              !.bound    = IF bind_rc = 0 THEN endpoint ELSE @]
                         /\ zproc' = IF BindFailed(bind_rc) THEN "aborted" ELSE "running"
                         /\ zhist' = [zhist EXCEPT !.inits = @ + 1, !.handles = @ + 2,
                                                   !.endpoint = endpoint]
  /\ UNCHANGED <<wire, last_pub>>
  /\ UNCHANGED portVars

\* The handle is not looked at before the sends.
NoChannel_unchecked == FALSE

\* if (!g_zmq_pub) return;
NoChannel == g_zmq_pub = 0

\* inline void zmq_pub_send_json(const char* topic, const char* json, size_t len)
zmq_pub_send_json ==
  /\ zproc = "running"
  /\ zhist.pubs < MaxPub
  /\ zhist' = [zhist EXCEPT !.pubs = @ + 1]
  /\ \E topic \in Topics, json \in Jsons :
       LET n == zhist.pubs + 1 IN
       IF NoChannel
         THEN \* if (!g_zmq_pub) return;
              /\ last_pub' = NoPublish
              /\ UNCHANGED <<sock, wire, zproc>>
         ELSE \E r1 \in zmq_send(sock, wire, Frame(n, "topic", topic), TopicFlags) :
                IF r1.blocked
                  THEN /\ zproc' = "blocked"
                       /\ last_pub' = NoPublish
                       /\ UNCHANGED <<sock, wire>>
                ELSE IF TopicSendFailed(r1.rc)
                  THEN /\ last_pub' = [topic_rc |-> r1.rc, payload_tried |-> FALSE,
                                       payload_rc |-> 0]
                       /\ sock' = r1.sock
                       /\ wire' = r1.wire
                       /\ UNCHANGED zproc
                ELSE \E r2 \in zmq_send(r1.sock, r1.wire,
                                        Frame(n, "payload", json), PayloadFlags) :
                       IF r2.blocked
                         THEN /\ zproc' = "blocked"
                              /\ last_pub' = [topic_rc |-> r1.rc,
                                              payload_tried |-> TRUE,
                                              payload_rc |-> 0]
                              /\ sock' = r1.sock
                              /\ wire' = r1.wire
                         ELSE /\ last_pub' = [topic_rc |-> r1.rc,
                                              payload_tried |-> TRUE,
                                              payload_rc |-> r2.rc]
                              /\ sock' = r2.sock
                              /\ wire' = r2.wire
                              /\ UNCHANGED zproc
  /\ UNCHANGED <<g_zmq_ctx, g_zmq_pub, zctxs, zsocks>>
  /\ UNCHANGED portVars

\* zmq_pub_close without the two "= nullptr" assignments.
zmq_pub_close_no_reset ==
  /\ zproc = "running"
  /\ zsocks' = IF g_zmq_pub # 0 THEN zsocks \ {g_zmq_pub} ELSE zsocks
  /\ zctxs' = IF g_zmq_ctx # 0 THEN zctxs \ {g_zmq_ctx} ELSE zctxs
  /\ sock' = IF g_zmq_pub # 0 THEN NoSocket ELSE sock
  /\ zhist' = [zhist EXCEPT
                 !.closes = IF g_zmq_pub # 0 THEN @ + 1 ELSE @,
                 !.terms  = IF g_zmq_ctx # 0 THEN @ + 1 ELSE @,
                 !.last_close = [called |-> TRUE, sock |-> g_zmq_pub # 0,
                                 ctx |-> g_zmq_ctx # 0]]
  /\ UNCHANGED <<g_zmq_pub, g_zmq_ctx, wire, zproc, last_pub>>
  /\ UNCHANGED portVars

\* inline void zmq_pub_close()
zmq_pub_close ==
  /\ zproc = "running"
  /\ IF g_zmq_pub # 0
       THEN \* zmq_close with the socket's linger: what is queued is discarded
            /\ zsocks' = zsocks \ {g_zmq_pub}
            /\ g_zmq_pub' = 0
            /\ sock' = NoSocket
       ELSE UNCHANGED <<zsocks, g_zmq_pub, sock>>
  /\ IF g_zmq_ctx # 0
       THEN /\ zctxs' = zctxs \ {g_zmq_ctx}
            /\ g_zmq_ctx' = 0
       ELSE UNCHANGED <<zctxs, g_zmq_ctx>>
  /\ zhist' = [zhist EXCEPT
                 !.closes = IF g_zmq_pub # 0 THEN @ + 1 ELSE @,
                 !.terms  = IF g_zmq_ctx # 0 THEN @ + 1 ELSE @,
                 !.last_close = [called |-> TRUE, sock |-> g_zmq_pub # 0,
                                 ctx |-> g_zmq_ctx # 0]]
  /\ UNCHANGED <<wire, zproc, last_pub>>
  /\ UNCHANGED portVars

\* The subscribers stop reading and earlier traffic has filled the outbound
\* pipe up to, or to one message below, its high-water mark.
subscriber_stalls ==
  /\ zproc = "running"
  /\ g_zmq_pub # 0
  /\ sock.inprog = << >> /\ ~sock.dropping
  /\ \E room \in {0, 1} :
       /\ sock.outq < sock.sndhwm - room
       /\ sock' = [sock EXCEPT !.outq = sock.sndhwm - room]
  /\ UNCHANGED <<g_zmq_ctx, g_zmq_pub, zctxs, zsocks, wire, zproc, zhist, last_pub>>
  /\ UNCHANGED portVars

\* The subscribers read everything that is queued.
subscriber_drains ==
  /\ zproc = "running"
  /\ g_zmq_pub # 0
  /\ sock.outq > 0
  /\ sock' = [sock EXCEPT !.outq = 0]
  /\ UNCHANGED <<g_zmq_ctx, g_zmq_pub, zctxs, zsocks, wire, zproc, zhist, last_pub>>
  /\ UNCHANGED portVars

NextPub ==
  \/ zmq_pub_init
  \/ zmq_pub_send_json
  \/ zmq_pub_close
  \/ subscriber_stalls
  \/ subscriber_drains

\* The channel's caller starts with the port program not started.
InitPub == Init /\ dev.fec = RTE_ETH_FEC_NOFEC

SpecPub == InitPub /\ [][NextPub]_vars


(***************************************************************************)
(* Properties of the port program (checked under Spec)                     *)
(***************************************************************************)

LastOf(q) == q[Len(q)]

\* Positions of the calls of operation op in `calls`.
CallsOf(op) == {i \in 1..Len(calls) : calls[i].op = op}

\* The port states at the calls made so far, then the state now.
StateTrace ==
  [i \in 1..(Len(calls) + 1) |->
     IF i <= Len(calls) THEN calls[i].at ELSE PortState]

\* C1: bring_up ends in exactly one of two outcomes: the port Started, or a
\* failure (state Failed, a panic message printed).  Once it has ended the
\* state is never Unconfigured, Configured or QueuesReady: these occur only
\* while main() is still before or in the bring-up (or was killed there).
C1_BringUpEndsStartedOrFailed ==
  /\ pc = "rte_eth_link_get_nowait" => (dev.started /\ PortState = "Started")
  /\ pc = "aborted" => (PortState = "Failed" /\ LastOf(out).kind = "panic")
  /\ PortState \in {"Unconfigured", "Configured", "QueuesReady"}
       => pc \in Prologue \cup BringUpSteps \cup {"killed"}

\* The bring-up has ended with the port Started although a tolerated step
\* failed on the way.
C1_Witness ==
  /\ pc = "rte_eth_link_get_nowait"
  /\ PortState = "Started"
  /\ \E i \in 1..Len(out) : out[i].kind = "warn"

\* C2 (as claimed): after a fatal step failed the state is Failed, the buffer
\* pool is no longer allocated and the device is no longer configured.
C2_FatalFailureReleasesResources ==
  pc = "aborted" =>
    /\ PortState = "Failed"
    /\ mp = "NULL"
    /\ ~dev.configured
    /\ ~(dev.rxq /\ dev.txq)

\* The name of a FEC mode as print_fec writes it.
ModeName(m) ==
  CASE m = RTE_ETH_FEC_NOFEC -> "NOFEC"
    [] m = RTE_ETH_FEC_AUTO  -> "AUTO"
    [] m = RTE_ETH_FEC_BASER -> "BASE-R"
    [] m = RTE_ETH_FEC_RS    -> "RS"

\* C3 (as claimed): if the FEC set fails while every fatal step succeeds, the
\* port still reaches Started and the FEC mode reported after the attempt is
\* the mode the device had before the attempt.
C3_FecFailureReportsPriorMode ==
  (pc = "rte_eth_link_get_nowait" /\ fec_ret < 0) =>
    /\ PortState = "Started"
    /\ \E i \in CallsOf("rte_eth_fec_set") :
       \E j \in 1..Len(out) :
         /\ out[j].kind = "fec"
         /\ out[j].text = << ModeName(calls[i].fec) >>

\* C4: the FEC set is attempted strictly before the port start call, every
\* port start is preceded by it, and no FEC set is issued once the port has
\* been started (state Started or Stopped).
C4_FecSetBeforeStart ==
  /\ \A j \in CallsOf("rte_eth_dev_start") :
       \E i \in CallsOf("rte_eth_fec_set") : i < j
  /\ \A i \in CallsOf("rte_eth_fec_set") :
       /\ calls[i].at \notin {"Started", "Stopped"}
       /\ \A j \in CallsOf("rte_eth_dev_start") : i < j

\* The whole program has run: FEC set, port start, run loop and shutdown.
C4_Witness ==
  /\ pc = "done"
  /\ CallsOf("rte_eth_fec_set") # {}
  /\ \E j \in CallsOf("rte_eth_dev_start") : calls[j].ret = 0

\* One step of the port state: the next state of the forward sequence, the
\* terminal Stopped from Started, or Failed.
ForwardStep(a, b) ==
  \/ a = b
  \/ b = "Failed"
  \/ <<a, b>> \in { <<"Unconfigured", "Configured">>,
                    <<"Configured", "QueuesReady">>,
                    <<"QueuesReady", "Started">>,
                    <<"Started", "Stopped">> }

\* The ordering of the bring-up calls: the pool exists before a queue is set
\* up, queues are set up only on a configured device, the port is started
\* only with all queues set up.
OrderedBringUp ==
  /\ \A i \in 1..Len(calls) : ForwardStep(StateTrace[i], StateTrace[i + 1])
  /\ \A i \in CallsOf("rte_eth_rx_queue_setup") \cup CallsOf("rte_eth_tx_queue_setup") :
       /\ calls[i].at = "Configured"
       /\ \E j \in CallsOf("rte_pktmbuf_pool_create") : j < i /\ calls[j].ret = 0
       /\ \E j \in CallsOf("rte_eth_dev_configure") : j < i /\ calls[j].ret = 0
  /\ \A i \in CallsOf("rte_eth_dev_start") : calls[i].at = "QueuesReady"

\* C5 (as claimed): the state moves forward without skipping, the bring-up
\* calls are ordered, and the port is stopped only from state Started.
C5_StopOnlyFromStarted ==
  /\ OrderedBringUp
  /\ \A i \in CallsOf("rte_eth_dev_stop") : calls[i].at = "Started"

\* C5 (amended): the state moves forward without skipping, the bring-up calls
\* are ordered, and the port is stopped from state Started, except for the one
\* precautionary stop main() issues before it configures the device, in state
\* Unconfigured, which leaves the state Unconfigured.
C5_ForwardOnlyWithPrecautionaryStop ==
  /\ OrderedBringUp
  /\ \A i \in CallsOf("rte_eth_dev_stop") :
       \/ calls[i].at = "Started" /\ StateTrace[i + 1] = "Stopped"
       \/ /\ calls[i].at = "Unconfigured"
          /\ StateTrace[i + 1] = "Unconfigured"
          /\ \A j \in CallsOf("rte_eth_dev_configure") : i < j
  /\ Cardinality({i \in CallsOf("rte_eth_dev_stop") : calls[i].at # "Started"}) <= 1

\* Both stops have happened: the precautionary one and the one of the shutdown.
C5_Witness ==
  /\ pc = "done"
  /\ Cardinality(CallsOf("rte_eth_dev_stop")) = 2

\* C9 (as claimed): once a SIGINT has been received, the process does not end
\* without the shutdown work done (port stopped, device closed, EAL released).
C9_SignalLeadsToShutdown ==
  (sig_seen /\ ~Alive) =>
    (eal = "released" /\ dev.closed /\ ~dev.started)

\* The teardown calls of main().
IsTeardown(c) ==
  \/ c.op \in {"rte_eth_dev_close", "rte_eal_cleanup"}
  \/ c.op = "rte_eth_dev_stop" /\ c.at = "Started"

\* C10: a step that changes the run flag (the signal handler) sets it to 0 and
\* changes nothing else: no device call, no change of device, pool, EAL,
\* position of main() or channel.  Every teardown call is made by main(),
\* at its statements behind the run loop, with the flag already 0.
C10_HandlerOnlyClearsFlag ==
  [][ /\ keep_running' # keep_running =>
           /\ keep_running' = 0
           /\ UNCHANGED <<pc, sigint_disp, eal, mp, dev, ret, fec_ret, calls, out>>
           /\ UNCHANGED pubVars
      /\ (Len(calls') > Len(calls) /\ \E i \in (Len(calls) + 1)..Len(calls') :
                                        IsTeardown(calls'[i])) =>
           /\ keep_running = 0 /\ keep_running' = 0
           /\ pc \in {"rte_eth_dev_stop", "rte_eth_dev_close", "rte_eal_cleanup"}
           /\ pc' = After(pc)
           /\ Len(calls') = Len(calls) + 1
    ]_vars

\* The handler has cleared the flag and main() has then done the teardown.
C10_Witness ==
  /\ pc = "done"
  /\ keep_running = 0
  /\ sig_seen
  /\ eal = "released"
  /\ dev.closed

\* Statements of main() behind the bring-up.
PastBringUp ==
  {"rte_eth_link_get_nowait", "signal", "run_loop", "rte_eth_dev_stop",
   "rte_eth_dev_close", "rte_eal_cleanup", "done"}

\* C14: a failed rte_eth_dev_set_mtu is tolerated: a warning naming the step
\* and the code is printed, the state does not become Failed by it (main()
\* goes on to the FEC set; if it aborts later, the panic is the port start's),
\* and once main() is behind the bring-up the FEC set and the port start have
\* both been called after it.
C14_MtuFailureTolerated ==
  \A i \in CallsOf("rte_eth_dev_set_mtu") :
    calls[i].ret < 0 =>
      /\ \E k \in 1..Len(out) :
           out[k].kind = "warn" /\ out[k].step = "set MTU" /\ out[k].code = calls[i].ret
      /\ StateTrace[i + 1] # "Failed"
      /\ i = Len(calls) => pc \in {"rte_eth_fec_set", "killed"}
      /\ pc = "aborted" => LastOf(out).step = "port start"
      /\ pc \in PastBringUp \cup {"aborted"} =>
           \E j \in CallsOf("rte_eth_fec_set") :
           \E k \in CallsOf("rte_eth_dev_start") : i < j /\ j < k

\* The MTU application failed and the port is Started all the same.
C14_Witness ==
  /\ pc = "rte_eth_link_get_nowait"
  /\ PortState = "Started"
  /\ \E i \in CallsOf("rte_eth_dev_set_mtu") : calls[i].ret < 0

\* C15 (as claimed): once the tolerated steps are done, the MTU has been read
\* back from the device after the set attempt, and the FEC mode that was
\* reported is the mode the device actually has.
C15_ActualValuesReported ==
  pc \in {"rte_eth_dev_start"} \cup PastBringUp =>
    /\ \E i \in CallsOf("rte_eth_dev_set_mtu") :
       \E j \in CallsOf("rte_eth_dev_get_mtu") : i < j
    /\ \E k \in 1..Len(out) :
         out[k].kind = "fec" /\ out[k].text = << ModeName(dev.fec) >>

\* C16 (as claimed): whatever rte_eth_link_get_nowait returns, the port stays
\* Started and main() enters the run loop; and when it fails, the link status
\* reported is "unknown".
C16_LinkReadNeverFailsAndUnknown ==
  \A i \in CallsOf("rte_eth_link_get_nowait") :
    /\ pc # "aborted"
    /\ StateTrace[i + 1] \in {"Started", "Stopped"}
    /\ calls[i].ret < 0 =>
         \A k \in 1..Len(out) :
           out[k].kind = "link" => out[k].text = << "unknown" >>

\* The fatal steps and the name the panic message gives each.
FatalStepName(op) ==
  CASE op = "rte_pktmbuf_pool_create" -> "mbuf pool create"
    [] op = "rte_eth_dev_configure"   -> "dev configure"
    [] op = "rte_eth_rx_queue_setup"  -> "rx queue setup"
    [] op = "rte_eth_tx_queue_setup"  -> "tx queue setup"
    [] op = "rte_eth_dev_start"       -> "port start"
    [] OTHER                          -> "none"

\* C17 (as claimed): when a fatal bring-up step has failed, the message
\* printed names that step and carries the code the call returned.
C17_FatalErrorNamesStepAndCode ==
  (pc = "aborted" /\ FatalStepName(LastOf(calls).op) # "none") =>
    /\ LastOf(out).kind = "panic"
    /\ LastOf(out).step = FatalStepName(LastOf(calls).op)
    /\ LastOf(out).hasCode
    /\ LastOf(out).code = LastOf(calls).ret

\* C18 (as claimed): when every call succeeds and the device reports its link
\* up, the port is Started, the link speed reported is 10000 Mbps and the FEC
\* mode reported is NOFEC ("NONE").
C18_AllSucceedReportsNoFec ==
  ( /\ pc = "signal"
    /\ \A i \in 1..Len(calls) : calls[i].ret >= 0
    /\ \E k \in 1..Len(out) : out[k].kind = "link" /\ out[k].text[1] = "UP" ) =>
      /\ PortState = "Started"
      /\ \E k \in 1..Len(out) : out[k].kind = "link" /\ out[k].code = 10000
      /\ \E k \in 1..Len(out) : out[k].kind = "fec" /\ out[k].text = << "NOFEC" >>

\* Positions of the teardown calls in `calls`.
Teardowns == {i \in 1..Len(calls) : IsTeardown(calls[i])}

\* C19: the shutdown calls are made only with the run flag cleared by a
\* SIGINT, each at most once, in the order stop, close, rte_eal_cleanup with
\* nothing in between; no call follows rte_eal_cleanup, and every other call
\* is preceded by a successful rte_eal_init.
C19_ShutdownOnceInOrder ==
  /\ Teardowns # {} => (keep_running = 0 /\ sig_seen)
  /\ \A i \in Teardowns :
       /\ calls[i].op = "rte_eth_dev_stop" =>
            /\ \A j \in Teardowns : j >= i
            /\ i < Len(calls) => calls[i + 1].op = "rte_eth_dev_close"
       /\ calls[i].op = "rte_eth_dev_close" =>
            /\ calls[i - 1].op = "rte_eth_dev_stop" /\ (i - 1) \in Teardowns
            /\ i < Len(calls) => calls[i + 1].op = "rte_eal_cleanup"
       /\ calls[i].op = "rte_eal_cleanup" =>
            /\ calls[i - 1].op = "rte_eth_dev_close"
            /\ i = Len(calls)
  /\ Cardinality(Teardowns) <= 3
  /\ \A i \in 1..Len(calls) :
       calls[i].op # "rte_eal_init" =>
         (calls[1].op = "rte_eal_init" /\ calls[1].ret >= 0 /\ i > 1)
  /\ pc = "done" => Cardinality(Teardowns) = 3

\* The program has run to its end: the three shutdown calls have been made.
C19_Witness ==
  /\ pc = "done"
  /\ Cardinality(Teardowns) = 3
  /\ LastOf(calls).op = "rte_eal_cleanup"

(***************************************************************************)
(* Properties of the channel (checked under SpecPub)                       *)
(***************************************************************************)

\* A step is one zmq_pub_send_json call on a live channel.
PublishStep == zhist'.pubs = zhist.pubs + 1 /\ g_zmq_pub # 0

\* C6: a publish whose topic send fails aborts: the payload send is not
\* attempted and nothing of the message reaches the socket or the wire.
C6_TopicFailureAborts ==
  [][ (PublishStep /\ last_pub'.topic_rc < 0) =>
        /\ ~last_pub'.payload_tried
        /\ wire' = wire
        /\ sock' = sock
    ]_vars

\* A publish on a live channel has failed at its topic frame.
C6_Witness ==
  /\ g_zmq_pub # 0
  /\ zhist.pubs > 0
  /\ last_pub.topic_rc < 0

\* C7 (as claimed): every message on the wire is exactly the topic frame and
\* the payload frame of one publish call.
C7_WireIsTwoFrameMessages ==
  \A i \in 1..Len(wire) :
    /\ Len(wire[i]) = 2
    /\ wire[i][1].part = "topic"
    /\ wire[i][2].part = "payload"
    /\ wire[i][1].call = wire[i][2].call

\* C8: publish never blocks, and a publish on a channel whose outbound pipe is
\* at capacity returns with the message dropped: nothing is added to the wire
\* and the pipe's content is unchanged.
C8_PublishNeverBlocks ==
  /\ [](zproc # "blocked")
  /\ [][ (PublishStep /\ Full(sock)) =>
           /\ zproc' = "running"
           /\ wire' = wire
           /\ sock'.outq = sock.outq
           /\ sock'.inprog = sock.inprog
       ]_vars

\* A publish has returned with both sends reporting success while the pipe is
\* at capacity, and nothing is on the wire.
C8_Witness ==
  /\ g_zmq_pub # 0
  /\ Full(sock)
  /\ zhist.pubs = 1
  /\ last_pub.topic_rc > 0
  /\ last_pub.payload_tried /\ last_pub.payload_rc > 0
  /\ wire = << >>


\* A step is one zmq_pub_close call that did something or the first call
\* that found nothing to do.
CloseStep ==
  \/ zhist'.last_close # zhist.last_close
  \/ zhist'.closes # zhist.closes
  \/ zhist'.terms # zhist.terms

\* C11: zmq_close is only ever called on a socket that is still open and
\* zmq_ctx_term on a context that is still live (so neither is closed twice),
\* and a zmq_pub_close call on a channel that is already closed calls neither
\* and leaves the channel state unchanged.
C11_SecondCloseIsSafe ==
  [][ /\ zhist'.closes # zhist.closes =>
           /\ zhist'.closes = zhist.closes + 1
           /\ g_zmq_pub \in zsocks
           /\ zsocks' = zsocks \ {g_zmq_pub}
      /\ zhist'.terms # zhist.terms =>
           /\ zhist'.terms = zhist.terms + 1
           /\ g_zmq_ctx \in zctxs
           /\ zctxs' = zctxs \ {g_zmq_ctx}
      /\ (CloseStep /\ g_zmq_pub = 0 /\ g_zmq_ctx = 0) =>
           /\ zhist'.closes = zhist.closes /\ zhist'.terms = zhist.terms
           /\ UNCHANGED <<g_zmq_ctx, g_zmq_pub, zctxs, zsocks, sock, wire, zproc>>
    ]_vars

\* zmq_pub_close has been called on a channel that the call before had closed.
C11_Witness ==
  /\ zhist.inits = 1 /\ zhist.closes = 1 /\ zhist.terms = 1
  /\ zhist.last_close = [called |-> TRUE, sock |-> FALSE, ctx |-> FALSE]
  /\ g_zmq_pub = 0 /\ g_zmq_ctx = 0


\* C12 (as claimed): in a running process at most one context and at most one
\* socket are live, and they are the ones the two handles point to: no init
\* creates a second pair or leaves an earlier pair live but unreachable.
C12_AtMostOneLivePair ==
  zproc = "running" =>
    /\ Cardinality(zctxs) <= 1
    /\ Cardinality(zsocks) <= 1
    /\ zctxs \subseteq {g_zmq_ctx}
    /\ zsocks \subseteq {g_zmq_pub}

\* A step is one zmq_pub_init call.
InitStep == zhist'.inits = zhist.inits + 1

\* C13: a zmq_pub_init call either aborts the process or returns with the
\* handles pointing to a live context and a live socket bound to the endpoint
\* it was given; it aborts whenever the context or the socket was not created
\* or the socket is not bound.  So a running process with a channel always
\* holds a live, bound pair.
C13_InitAbortsOrBinds ==
  /\ [][ InitStep =>
           \/ zproc' = "aborted"
           \/ /\ zproc' = "running"
              /\ g_zmq_ctx' # 0 /\ g_zmq_ctx' \in zctxs'
              /\ g_zmq_pub' # 0 /\ g_zmq_pub' \in zsocks'
              /\ sock'.bound \in Endpoints
              /\ sock'.bound = zhist'.endpoint
       ]_vars
  /\ []((zproc = "running" /\ g_zmq_pub # 0) =>
          /\ g_zmq_ctx \in zctxs
          /\ g_zmq_pub \in zsocks
          /\ sock.bound \in Endpoints)

\* zmq_pub_init has returned with a live, bound channel.
C13_Witness ==
  /\ zproc = "running"
  /\ zhist.inits = 1
  /\ g_zmq_ctx \in zctxs /\ g_zmq_pub \in zsocks
  /\ sock.bound = zhist.endpoint /\ sock.bound \in Endpoints

\* C20: a zmq_pub_send_json call made while no channel is live (g_zmq_pub is
\* nullptr) sends no frame and changes nothing of the channel, the handles
\* stay nullptr; and every zmq_pub_close call leaves both handles nullptr.
C20_PublishWithoutChannelIsNoOp ==
  [][ /\ (zhist'.pubs = zhist.pubs + 1 /\ g_zmq_pub = 0) =>
           /\ UNCHANGED <<g_zmq_ctx, g_zmq_pub, zctxs, zsocks, sock, wire, zproc>>
           /\ last_pub' = NoPublish
      /\ CloseStep => (g_zmq_pub' = 0 /\ g_zmq_ctx' = 0)
    ]_vars

\* A message was published on a live channel, the channel was closed, and a
\* later publish found no channel.
C20_Witness ==
  /\ zhist.inits = 1 /\ zhist.closes = 1 /\ zhist.pubs = 2
  /\ Len(wire) = 1
  /\ last_pub = NoPublish
  /\ g_zmq_pub = 0 /\ g_zmq_ctx = 0

====
